---------------------------- MODULE Spec2Model ----------------------------
(***************************************************************************)
(* Micro-motion CAPTCHA (main.js): path generation, the trace recorder     *)
(* driven by pointer events, and the evaluator of a completed trace.       *)
(*                                                                         *)
(* Number representation.  Coordinates are whole pixels.  Times are in     *)
(* tenths of a millisecond (TimeScale units per ms), so that the 0.1 ms    *)
(* floor of dt is the integer 1.  Squared distances and the two ratios of  *)
(* the evaluator are exact rationals [num, den].  The velocity statistics   *)
(* are decimal floating-point numbers [m, e] (value m * 10^e) with a       *)
(* mantissa of Digits digits, results truncated.                           *)
(***************************************************************************)
EXTENDS Integers, Sequences, FiniteSets, TLC

VARIABLES
    state,      \* the module-level object `state` of main.js
    status,     \* statusEl: [text, tone], written by setStatus
    attempt,    \* the local `attempt` of completeAttempt: the snapshot the last
                \* event handed to evaluateMovements, <<>> if it evaluated nothing
    arg,        \* argument of the pure function under check (pure specifications)
    ret         \* its result

vars == <<state, status, attempt, arg, ret>>

(* ----------------------------- constants ------------------------------ *)

PATH_WIDTH == 44
START_RADIUS == 32
END_RADIUS == 36
END_MARGIN == 4
MIN_SAMPLES == 12
TimeScale == 10
Digits == 4
DT_FLOOR == TimeScale \div 10
paddingX == 70
paddingY == 60
segments == 12
VelocityWindow == 6
JitterPx == 3
PauseMs == 50
SampleThreshold == 70
PauseThreshold == 2

(* ------------------------------- bounds -------------------------------- *)

StepPx == 6          \* canvas width is 2*paddingX + segments*StepPx
HalfHeight == 90     \* canvas height is 2*HalfHeight
RandDen == 3         \* Math.random() yields k/RandDen, k in 0..RandDen-1
BeginReading == 1000 \* the clock reading taken by beginRecording
Tick == 80           \* the usual clock advance between two samples (8 ms)
Gap == 600           \* a long clock advance (60 ms)
Back == 50           \* a clock reading that went backwards by 5 ms
MaxTrace == 72       \* samples per attempt
FreeLen == 1         \* samples of an attempt whose inputs are drawn freely
RetryLen == 12       \* samples per attempt once a verdict is stored
Around == 1          \* feature values are drawn this far around each threshold
MaxStepX == 3        \* generator widths are 2*paddingX + segments*(1..MaxStepX)
MaxHeightSteps == 4  \* generator heights are 2*paddingY + 20*(0..MaxHeightSteps)
MaxShortTrace == 7   \* the evaluator on its own is given traces of 0..MaxShortTrace samples
GridMax == 2         \* distance inputs have coordinates in 0..GridMax

CanvasWidth == 2 * paddingX + segments * StepPx
CanvasHeight == 2 * HalfHeight

(* ------------------------------ arithmetic ----------------------------- *)

Max(a, b) == IF a >= b THEN a ELSE b
Min(a, b) == IF a <= b THEN a ELSE b
Abs(a) == IF a < 0 THEN -a ELSE a

\* clamp(val, min, max)
clamp(val, lo, hi) == Max(lo, Min(hi, val))

RECURSIVE IsqrtBetween(_, _, _)
IsqrtBetween(n, lo, hi) ==
    IF lo >= hi THEN lo
    ELSE LET mid == (lo + hi + 1) \div 2
         IN IF mid * mid <= n THEN IsqrtBetween(n, mid, hi)
                              ELSE IsqrtBetween(n, lo, mid - 1)

\* floor of the square root of n, for 0 <= n < 2^31
Isqrt(n) == IsqrtBetween(n, 0, Min(n, 46340))

\* exact rationals with positive denominator
Rat(n, d) == [num |-> n, den |-> d]

\* a < b for rationals, by quotient and remainder (no large products)
RatLess(a, b) ==
    LET qa == a.num \div a.den
        qb == b.num \div b.den
        ra == a.num % a.den
        rb == b.num % b.den
    IN \/ qa < qb
       \/ qa = qb /\ ra * b.den < rb * a.den

RatLeq(a, b) == ~RatLess(b, a)

RatMin(a, b) == IF RatLess(b, a) THEN b ELSE a

(* ------------------------------ geometry ------------------------------- *)

Pt(px, py) == [x |-> px, y |-> py]

DistSq(p, q) == (p.x - q.x) * (p.x - q.x) + (p.y - q.y) * (p.y - q.y)

\* isInsideCircle(point, center, radius); `center` is always present here
isInsideCircle(point, center, radius) ==
    LET dx == point.x - center.x
        dy == point.y - center.y
    IN dx * dx + dy * dy <= radius * radius

\* distanceToSegment with the projection clamped to the wrong endpoint
distanceToSegmentSwapped(p, a, b) ==
    LET dx == b.x - a.x
        dy == b.y - a.y
        len2 == dx * dx + dy * dy
        dot == (p.x - a.x) * dx + (p.y - a.y) * dy
        cross == (p.x - a.x) * dy - (p.y - a.y) * dx
    IN IF dx = 0 /\ dy = 0 THEN [num |-> (p.x - a.x) * (p.x - a.x) + (p.y - a.y) * (p.y - a.y), den |-> 1]
       ELSE IF dot <= 0 THEN [num |-> (p.x - b.x) * (p.x - b.x) + (p.y - b.y) * (p.y - b.y), den |-> 1]
       ELSE IF dot >= len2 THEN [num |-> (p.x - a.x) * (p.x - a.x) + (p.y - a.y) * (p.y - a.y), den |-> 1]
       ELSE [num |-> cross * cross, den |-> len2]

\* distanceToSegment(p, a, b), squared, as an exact rational:
\* t = clamp(((p-a).(b-a)) / |b-a|^2, 0, 1); |p - (a + t(b-a))|^2
distanceToSegment(p, a, b) ==
    LET dx == b.x - a.x
        dy == b.y - a.y
        len2 == dx * dx + dy * dy
        dot == (p.x - a.x) * dx + (p.y - a.y) * dy
        cross == (p.x - a.x) * dy - (p.y - a.y) * dx
    IN IF dx = 0 /\ dy = 0 THEN Rat(DistSq(p, a), 1)
       ELSE IF dot <= 0 THEN Rat(DistSq(p, a), 1)
       ELSE IF dot >= len2 THEN Rat(DistSq(p, b), 1)
       ELSE Rat(cross * cross, len2)

\* Math.min(min, d); <<>> stands for Infinity
Closer(best, d) == IF best = <<>> THEN <<d>> ELSE <<RatMin(best[1], d)>>

RECURSIVE PathMin(_, _, _, _)
PathMin(point, points, i, best) ==
    IF i > Len(points) THEN best
    ELSE PathMin(point, points, i + 1,
                 Closer(best, distanceToSegment(point, points[i - 1], points[i])))

\* distanceToPath(point, points), squared; <<>> stands for Infinity
distanceToPath(point, points) == PathMin(point, points, 2, <<>>)

\* (pathWidth * 0.52)^2
EdgeLimitSq(pathWidth) == Rat(pathWidth * pathWidth * 52 * 52, 100 * 100)

\* distanceToPath(pointer, pathPoints) > pathWidth * 0.52
EdgeCollision(point, points, pathWidth) ==
    LET d == distanceToPath(point, points)
    IN d = <<>> \/ RatLess(EdgeLimitSq(pathWidth), d[1])

(* --------------------------- path generation --------------------------- *)

\* randomRange(min, max) when Math.random() returned k/RandDen
randomRange(lo, hi, k) == (k * (hi - lo)) \div RandDen + lo

RECURSIVE PathLoop(_, _, _, _, _, _, _)
PathLoop(i, x, y, points, stepX, height, draws) ==
    IF i >= segments THEN points
    ELSE LET x1 == x + stepX
             y1 == clamp(y + randomRange(-90, 90, draws[i + 2]),
                         paddingY, height - paddingY)
         IN PathLoop(i + 1, x1, y1, Append(points, Pt(x1, y1)), stepX, height, draws)

\* createPathPoints(width, height); draws[1..segments+1] are the outcomes of
\* Math.random() in call order.  Exact for the widths and heights drawn here:
\* width - 2*paddingX a multiple of segments, height even.
createPathPoints(width, height, draws) ==
    LET stepX == (width - paddingX * 2) \div segments
        x == paddingX
        y == height \div 2 + randomRange(-30, 30, draws[1])
    IN PathLoop(0, x, y, <<Pt(x, y)>>, stepX, height, draws)

(* ------------------------------ evaluator ------------------------------ *)

\* floating point: [m, e] is m * 10^e, m = 0 or 10^(Digits-1) <= m < 10^Digits
FZero == [m |-> 0, e |-> 0]

RECURSIVE FNorm(_, _)
FNorm(m, e) ==
    IF m = 0 THEN FZero
    ELSE IF m >= 10 ^ Digits THEN FNorm(m \div 10, e + 1)
    ELSE IF m < 10 ^ (Digits - 1) THEN FNorm(m * 10, e - 1)
    ELSE [m |-> m, e |-> e]

FInt(n) == FNorm(n, 0)

\* the decimal n / 10^k
FDec(n, k) == FNorm(n, 0 - k)

FLess(a, b) ==
    IF b.m = 0 THEN FALSE
    ELSE IF a.m = 0 THEN TRUE
    ELSE a.e < b.e \/ (a.e = b.e /\ a.m < b.m)

\* hi + lo and hi - lo for lo <= hi
FAddOrdered(hi, lo) ==
    IF lo.m = 0 \/ hi.e - lo.e > Digits THEN hi
    ELSE FNorm(hi.m * (10 ^ (hi.e - lo.e)) + lo.m, lo.e)

FSubOrdered(hi, lo) ==
    IF lo.m = 0 \/ hi.e - lo.e > Digits THEN hi
    ELSE FNorm(hi.m * (10 ^ (hi.e - lo.e)) - lo.m, lo.e)

FAdd(a, b) == IF FLess(a, b) THEN FAddOrdered(b, a) ELSE FAddOrdered(a, b)

\* |a - b|
FAbsDiff(a, b) == IF FLess(a, b) THEN FSubOrdered(b, a) ELSE FSubOrdered(a, b)

FMul(a, b) == FNorm(a.m * b.m, a.e + b.e)

\* a / b for b # 0
FDiv(a, b) == FNorm((a.m * (10 ^ Digits)) \div b.m, a.e - b.e - Digits)

FSqrt(a) ==
    IF a.m = 0 THEN FZero
    ELSE IF a.e % 2 = 0
         THEN FNorm(Isqrt(a.m * (10 ^ Digits)), (a.e - Digits) \div 2)
         ELSE FNorm(Isqrt(a.m * (10 ^ (Digits + 1))), (a.e - Digits - 1) \div 2)

\* Math.hypot(dx, dy)
Hypot(dx, dy) == FSqrt(FInt(dx * dx + dy * dy))

\* floor(10^k * num / den) for 0 <= num < den, digit by digit
RECURSIVE FracDigits(_, _, _)
FracDigits(num, den, k) ==
    IF k = 0 THEN 0
    ELSE ((num * 10) \div den) * (10 ^ (k - 1))
         + FracDigits((num * 10) % den, den, k - 1)

\* the velocity pushed by the loop of velocityStats at index i, <<>> if the
\* loop skips it; every sample carries a numeric elapsed, so dt is the
\* difference of elapsed over the last `window` samples
VelAt(movements, i, window) ==
    LET curr == movements[i]
        prev == movements[i - window]
        dt == curr.elapsed - prev.elapsed
    IN IF dt <= 0 THEN <<>>
       ELSE <<FDiv(FMul(Hypot(curr.x - prev.x, curr.y - prev.y), FInt(TimeScale)),
                   FInt(dt))>>

\* the velocities pushed for the indices lo..hi, in order (the range is
\* halved, which keeps the nesting shallow for long traces)
RECURSIVE Vels(_, _, _, _)
Vels(movements, lo, hi, window) ==
    IF lo > hi THEN <<>>
    ELSE IF lo = hi THEN VelAt(movements, lo, window)
    ELSE Vels(movements, lo, (lo + hi) \div 2, window)
         \o Vels(movements, (lo + hi) \div 2 + 1, hi, window)

\* the sum of s[lo..hi], added pairwise
RECURSIVE SumSeq(_, _, _)
SumSeq(s, lo, hi) ==
    IF lo > hi THEN FZero
    ELSE IF lo = hi THEN s[lo]
    ELSE FAdd(SumSeq(s, lo, (lo + hi) \div 2), SumSeq(s, (lo + hi) \div 2 + 1, hi))

Square(d) == FMul(d, d)

\* the sum of (s[k] - mean)^2 for k in lo..hi, added pairwise
RECURSIVE SumSqDev(_, _, _, _)
SumSqDev(s, mean, lo, hi) ==
    IF lo > hi THEN FZero
    ELSE IF lo = hi THEN Square(FAbsDiff(s[lo], mean))
    ELSE FAdd(SumSqDev(s, mean, lo, (lo + hi) \div 2),
              SumSqDev(s, mean, (lo + hi) \div 2 + 1, hi))

\* mean and variance of the collected velocities (the tail of velocityStats)
MeanVariance(vels, mean) ==
    [mean |-> mean,
     variance |-> FDiv(SumSqDev(vels, mean, 1, Len(vels)), FInt(Len(vels)))]

StatsOf(vels) ==
    IF Len(vels) = 0 THEN [mean |-> FZero, variance |-> FZero]
    ELSE MeanVariance(vels, FDiv(SumSeq(vels, 1, Len(vels)), FInt(Len(vels))))

\* velocityStats with the window one sample short
velocityStatsShortWindow(movements) ==
    IF Len(movements) <= VelocityWindow - 1 THEN [mean |-> FZero, variance |-> FZero]
    ELSE StatsOf(Vels(movements, VelocityWindow, Len(movements), VelocityWindow - 1))

\* velocityStats(movements)
velocityStats(movements) ==
    IF Len(movements) <= VelocityWindow THEN [mean |-> FZero, variance |-> FZero]
    ELSE StatsOf(Vels(movements, VelocityWindow + 1, Len(movements), VelocityWindow))

\* the number of indices from i on that the loop of jitterScore counts
JitterFrom(movements, i) ==
    Cardinality({k \in i..Len(movements) :
                    /\ Abs(movements[k].x - movements[k - 1].x) < JitterPx
                    /\ Abs(movements[k].y - movements[k - 1].y) < JitterPx})

\* jitterScore(movements)
jitterScore(movements) == JitterFrom(movements, 2)

\* the number of samples from index i on that the filter of idlePauses keeps
PausesFrom(movements, i) ==
    Cardinality({k \in i..Len(movements) : movements[k].dt > PauseMs * TimeScale})

\* idlePauses counting every sample
idlePausesAny(movements) == Len(movements)

\* idlePauses(movements)
idlePauses(movements) == PausesFrom(movements, 1)

\* prevMag < 0.4 || currMag < 0.4 at index i of the loop of directionNoiseRatio
TurnSkipped(movements, i) ==
    LET px == movements[i - 1].x - movements[i - 2].x
        py == movements[i - 1].y - movements[i - 2].y
        cx == movements[i].x - movements[i - 1].x
        cy == movements[i].y - movements[i - 1].y
    IN (px * px + py * py) * 100 < 16 \/ (cx * cx + cy * cy) * 100 < 16

\* dot / (prevMag * currMag) < 0.93 at index i of the loop
TurnNoisy(movements, i) ==
    LET px == movements[i - 1].x - movements[i - 2].x
        py == movements[i - 1].y - movements[i - 2].y
        cx == movements[i].x - movements[i - 1].x
        cy == movements[i].y - movements[i - 1].y
        prevSq == px * px + py * py
        currSq == cx * cx + cy * cy
        dot == px * cx + py * cy
    IN \/ dot < 0
       \/ /\ dot * dot < prevSq * currSq
          /\ FracDigits(dot * dot, prevSq * currSq, 4) < 93 * 93

\* [noisy, comparisons] counted by the loop of directionNoiseRatio from index i on
TurnsFrom(movements, i) ==
    [noisy |-> Cardinality({k \in i..Len(movements) :
                  ~TurnSkipped(movements, k) /\ TurnNoisy(movements, k)}),
     comparisons |-> Cardinality({k \in i..Len(movements) : ~TurnSkipped(movements, k)})]

\* directionNoiseRatio(movements), an exact rational
directionNoiseRatio(movements) ==
    LET t == TurnsFrom(movements, 3)
    IN IF t.comparisons # 0 THEN Rat(t.noisy, t.comparisons) ELSE Rat(0, 1)

\* the feature record, from the values computed at the head of evaluateMovements
FeaturesOf(movements, stats, velocityStd, jitterCount) ==
    [meanVelocity |-> stats.mean,
     variance |-> stats.variance,
     velocityStd |-> velocityStd,
     velocityCv |-> IF stats.mean # FZero THEN FDiv(velocityStd, stats.mean) ELSE FZero,
     jitterCount |-> jitterCount,
     jitterRatio |-> Rat(jitterCount, Max(1, Len(movements) - 1)),
     directionNoise |-> directionNoiseRatio(movements),
     pauses |-> idlePauses(movements),
     samples |-> Len(movements)]

StdOf(movements, stats) ==
    FeaturesOf(movements, stats, FSqrt(stats.variance), jitterScore(movements))

\* the feature values computed at the head of evaluateMovements
ExtractFeatures(movements) == StdOf(movements, velocityStats(movements))

\* Classify with the three chaos sub-signals all required
ClassifyAllChaos(f) ==
    LET passVariance == FLess(FDec(1, 2), f.variance)
        passCv == FLess(FDec(25, 2), f.velocityCv)
        passDirection == f.directionNoise.num * 100 > 8 * f.directionNoise.den
        passChaos == passVariance /\ passCv /\ passDirection
        passJitter == f.jitterRatio.num * 10 > f.jitterRatio.den
        passPauses == f.pauses >= PauseThreshold
        passSamples == f.samples > SampleThreshold
    IN [pass |-> passChaos /\ passJitter /\ passPauses /\ passSamples,
        meanVelocity |-> f.meanVelocity,
        variance |-> f.variance,
        velocityStd |-> f.velocityStd,
        velocityCv |-> f.velocityCv,
        jitterCount |-> f.jitterCount,
        jitterRatio |-> f.jitterRatio,
        directionNoise |-> f.directionNoise,
        pauses |-> f.pauses,
        samples |-> f.samples,
        requirements |-> [passVariance |-> passVariance, passCv |-> passCv,
                          passDirection |-> passDirection, passChaos |-> passChaos,
                          passJitter |-> passJitter, passPauses |-> passPauses,
                          passSamples |-> passSamples]]

\* the threshold rules of evaluateMovements and the record it returns
Classify(f) ==
    LET passVariance == FLess(FDec(1, 2), f.variance)
        passCv == FLess(FDec(25, 2), f.velocityCv)
        passDirection == f.directionNoise.num * 100 > 8 * f.directionNoise.den
        passChaos == passVariance \/ passCv \/ passDirection
        passJitter == f.jitterRatio.num * 10 > f.jitterRatio.den
        passPauses == f.pauses >= PauseThreshold
        passSamples == f.samples > SampleThreshold
    IN [pass |-> passChaos /\ passJitter /\ passPauses /\ passSamples,
        meanVelocity |-> f.meanVelocity,
        variance |-> f.variance,
        velocityStd |-> f.velocityStd,
        velocityCv |-> f.velocityCv,
        jitterCount |-> f.jitterCount,
        jitterRatio |-> f.jitterRatio,
        directionNoise |-> f.directionNoise,
        pauses |-> f.pauses,
        samples |-> f.samples,
        requirements |-> [passVariance |-> passVariance, passCv |-> passCv,
                          passDirection |-> passDirection, passChaos |-> passChaos,
                          passJitter |-> passJitter, passPauses |-> passPauses,
                          passSamples |-> passSamples]]

\* evaluateMovements(movements)
evaluateMovements(movements) == Classify(ExtractFeatures(movements))

(* ------------------------------ recorder ------------------------------- *)

NoResult == <<>>     \* null; a stored Verdict v is <<v>>

\* the program's mutable world at the entry of a handler
World == [state |-> state, status |-> status, attempt |-> <<>>]

\* setStatus(text, tone)
setStatus(w, text, tone) == [w EXCEPT !.status = [text |-> text, tone |-> tone]]

\* generateNewPath that installs the new path over a live attempt
generateNewPathKeepsTrace(w, draws) ==
    setStatus([w EXCEPT !.state.pathPoints = createPathPoints(CanvasWidth, CanvasHeight, draws),
                        !.state.lastResult = <<>>],
              "Hover the start beacon to begin.", "ready")

\* generateNewPath(); draws are the outcomes of Math.random()
generateNewPath(w, draws) ==
    setStatus([w EXCEPT !.state.pathPoints = createPathPoints(CanvasWidth, CanvasHeight, draws),
                        !.state.movements = <<>>,
                        !.state.trailPoints = <<>>,
                        !.state.recording = FALSE,
                        !.state.elapsed = 0,
                        !.state.lastResult = NoResult],
              "Hover the start beacon to begin.", "ready")

\* resetAttempt that also drops the stored verdict, as generateNewPath does
resetAttemptClearsVerdict(w) ==
    setStatus([w EXCEPT !.state.movements = <<>>,
                        !.state.trailPoints = <<>>,
                        !.state.recording = FALSE,
                        !.state.elapsed = 0,
                        !.state.lastResult = <<>>],
              "Attempt reset. Hover the start beacon to begin.", "ready")

\* resetAttempt()
resetAttempt(w) ==
    setStatus([w EXCEPT !.state.movements = <<>>,
                        !.state.trailPoints = <<>>,
                        !.state.recording = FALSE,
                        !.state.elapsed = 0],
              "Attempt reset. Hover the start beacon to begin.", "ready")

\* beginRecording without the status update
beginRecordingSilent(w, now) ==
    [w EXCEPT !.state.movements = <<>>,
              !.state.trailPoints = <<>>,
              !.state.recording = TRUE,
              !.state.lastTime = now,
              !.state.elapsed = 0]

\* beginRecording(); now is the reading of performance.now()
beginRecording(w, now) ==
    setStatus([w EXCEPT !.state.movements = <<>>,
                        !.state.trailPoints = <<>>,
                        !.state.recording = TRUE,
                        !.state.lastTime = now,
                        !.state.elapsed = 0],
              "Recording... stay inside the glow.", "recording")

\* failAttempt that also drops the stored verdict
failAttemptClearsVerdict(w, message) ==
    setStatus([w EXCEPT !.state.recording = FALSE,
                        !.state.movements = <<>>,
                        !.state.trailPoints = <<>>,
                        !.state.elapsed = 0,
                        !.state.lastResult = <<>>],
              message \o " Return to start to try again.", "fail")

\* failAttempt without the reset of elapsed
failAttemptKeepsElapsed(w, message) ==
    setStatus([w EXCEPT !.state.recording = FALSE,
                        !.state.movements = <<>>,
                        !.state.trailPoints = <<>>],
              message \o " Return to start to try again.", "fail")

\* failAttempt(message)
failAttempt(w, message) ==
    setStatus([w EXCEPT !.state.recording = FALSE,
                        !.state.movements = <<>>,
                        !.state.trailPoints = <<>>,
                        !.state.elapsed = 0],
              message \o " Return to start to try again.", "fail")

\* completeAttempt without the final clearing of the trace and of elapsed
completeAttemptKeepsTrace(w) ==
    LET w1 == [w EXCEPT !.state.recording = FALSE]
    IN IF Len(w1.state.movements) < MIN_SAMPLES
       THEN failAttempt(w1, "Movement trace too short.")
       ELSE LET snapshot == w1.state.movements
                evaluation == evaluateMovements(snapshot)
                w2 == [w1 EXCEPT !.attempt = snapshot,
                                 !.state.lastResult = <<evaluation>>]
            IN IF evaluation.pass
               THEN setStatus(w2, "Human micro motion detected. GAME cleared.", "pass")
               ELSE setStatus(w2, "Motion looked synthetic. Try again.", "fail")

\* completeAttempt with the minimum off by one (<= instead of <)
completeAttemptOffByOne(w) ==
    LET w1 == [w EXCEPT !.state.recording = FALSE]
    IN IF Len(w1.state.movements) <= MIN_SAMPLES
       THEN failAttempt(w1, "Movement trace too short.")
       ELSE LET snapshot == w1.state.movements
                evaluation == evaluateMovements(snapshot)
                w2 == [w1 EXCEPT !.attempt = snapshot,
                                 !.state.lastResult = <<evaluation>>]
                w3 == IF evaluation.pass
                      THEN setStatus(w2, "Human micro motion detected. GAME cleared.", "pass")
                      ELSE setStatus(w2, "Motion looked synthetic. Try again.", "fail")
            IN [w3 EXCEPT !.state.movements = <<>>, !.state.elapsed = 0]

\* completeAttempt()
completeAttempt(w) ==
    LET w1 == [w EXCEPT !.state.recording = FALSE]
    IN IF Len(w1.state.movements) < MIN_SAMPLES
       THEN failAttempt(w1, "Movement trace too short.")
       ELSE LET snapshot == w1.state.movements
                evaluation == evaluateMovements(snapshot)
                w2 == [w1 EXCEPT !.attempt = snapshot,
                                 !.state.lastResult = <<evaluation>>]
                w3 == IF evaluation.pass
                      THEN setStatus(w2, "Human micro motion detected. GAME cleared.", "pass")
                      ELSE setStatus(w2, "Motion looked synthetic. Try again.", "fail")
            IN [w3 EXCEPT !.state.movements = <<>>, !.state.elapsed = 0]

\* recordSample without the push to the trail
recordSampleNoTrail(w, pointer, now) ==
    LET dt == Max(now - w.state.lastTime, DT_FLOOR)
        w1 == [w EXCEPT !.state.lastTime = now]
    IN IF EdgeCollision(pointer, w1.state.pathPoints, w1.state.pathWidth)
       THEN failAttempt(w1, "Edge collision detected.")
       ELSE LET elapsed == w1.state.elapsed + dt
                w2 == [w1 EXCEPT
                         !.state.elapsed = elapsed,
                         !.state.movements = Append(@, [x |-> pointer.x, y |-> pointer.y,
                                                        dt |-> dt, elapsed |-> elapsed])]
            IN IF isInsideCircle(pointer, w2.state.pathPoints[Len(w2.state.pathPoints)],
                                 END_RADIUS - END_MARGIN)
               THEN completeAttempt(w2)
               ELSE w2

\* recordSample with the completion check ahead of the append
recordSampleCompleteFirst(w, pointer, now) ==
    LET dt == Max(now - w.state.lastTime, DT_FLOOR)
        w1 == [w EXCEPT !.state.lastTime = now]
    IN IF EdgeCollision(pointer, w1.state.pathPoints, w1.state.pathWidth)
       THEN failAttempt(w1, "Edge collision detected.")
       ELSE IF isInsideCircle(pointer, w1.state.pathPoints[Len(w1.state.pathPoints)],
                              END_RADIUS - END_MARGIN)
       THEN completeAttempt(w1)
       ELSE LET elapsed == w1.state.elapsed + dt
            IN [w1 EXCEPT
                  !.state.elapsed = elapsed,
                  !.state.movements = Append(@, [x |-> pointer.x, y |-> pointer.y,
                                                 dt |-> dt, elapsed |-> elapsed]),
                  !.state.trailPoints = Append(@, Pt(pointer.x, pointer.y))]

\* recordSample without the floor of dt
recordSampleNoFloor(w, pointer, now) ==
    LET dt == now - w.state.lastTime
        w1 == [w EXCEPT !.state.lastTime = now]
    IN IF EdgeCollision(pointer, w1.state.pathPoints, w1.state.pathWidth)
       THEN failAttempt(w1, "Edge collision detected.")
       ELSE LET elapsed == w1.state.elapsed + dt
                w2 == [w1 EXCEPT
                         !.state.elapsed = elapsed,
                         !.state.movements = Append(@, [x |-> pointer.x, y |-> pointer.y,
                                                        dt |-> dt, elapsed |-> elapsed]),
                         !.state.trailPoints = Append(@, Pt(pointer.x, pointer.y))]
                endPoint == w2.state.pathPoints[Len(w2.state.pathPoints)]
            IN IF isInsideCircle(pointer, endPoint, END_RADIUS - END_MARGIN)
               THEN completeAttempt(w2)
               ELSE w2

\* recordSample with the end-anchor test ahead of the edge test
recordSampleEndFirst(w, pointer, now) ==
    LET dt == Max(now - w.state.lastTime, DT_FLOOR)
        w1 == [w EXCEPT !.state.lastTime = now]
        elapsed == w1.state.elapsed + dt
        w2 == [w1 EXCEPT
                 !.state.elapsed = elapsed,
                 !.state.movements = Append(@, [x |-> pointer.x, y |-> pointer.y,
                                                dt |-> dt, elapsed |-> elapsed]),
                 !.state.trailPoints = Append(@, Pt(pointer.x, pointer.y))]
        endPoint == w2.state.pathPoints[Len(w2.state.pathPoints)]
    IN IF isInsideCircle(pointer, endPoint, END_RADIUS - END_MARGIN)
       THEN completeAttempt(w2)
       ELSE IF EdgeCollision(pointer, w1.state.pathPoints, w1.state.pathWidth)
       THEN failAttempt(w1, "Edge collision detected.")
       ELSE w2

\* the sample step of handlePointerMove (from the second clock reading on)
recordSample(w, pointer, now) ==
    LET dt == Max(now - w.state.lastTime, DT_FLOOR)
        w1 == [w EXCEPT !.state.lastTime = now]
    IN IF EdgeCollision(pointer, w1.state.pathPoints, w1.state.pathWidth)
       THEN failAttempt(w1, "Edge collision detected.")
       ELSE LET elapsed == w1.state.elapsed + dt
                w2 == [w1 EXCEPT
                         !.state.elapsed = elapsed,
                         !.state.movements = Append(@, [x |-> pointer.x, y |-> pointer.y,
                                                        dt |-> dt, elapsed |-> elapsed]),
                         !.state.trailPoints = Append(@, Pt(pointer.x, pointer.y))]
                endPoint == w2.state.pathPoints[Len(w2.state.pathPoints)]
            IN IF isInsideCircle(pointer, endPoint, END_RADIUS - END_MARGIN)
               THEN completeAttempt(w2)
               ELSE w2

\* handlePointerMove without the start-anchor test
handlePointerMoveAnywhere(w, pointer, nowBegin, step) ==
    IF Len(w.state.pathPoints) = 0 THEN w
    ELSE LET w1 == IF ~w.state.recording
                   THEN [beginRecording(w, nowBegin) EXCEPT !.state.trailPoints = <<>>]
                   ELSE w
         IN IF ~w1.state.recording THEN w1
            ELSE recordSample(w1, pointer, w1.state.lastTime + step)

\* handlePointerMove(event): pointer is getPointerPosition(event); nowBegin is
\* the clock reading taken by beginRecording (if it runs) and the reading of
\* line 65 is state.lastTime + step, step possibly zero or negative
handlePointerMove(w, pointer, nowBegin, step) ==
    IF Len(w.state.pathPoints) = 0 THEN w
    ELSE LET w1 == IF ~w.state.recording
                      /\ isInsideCircle(pointer, w.state.pathPoints[1], START_RADIUS)
                   THEN [beginRecording(w, nowBegin) EXCEPT !.state.trailPoints = <<>>]
                   ELSE w
         IN IF ~w1.state.recording THEN w1
            ELSE recordSample(w1, pointer, w1.state.lastTime + step)

\* handlePointerLeave without the test of state.recording
handlePointerLeaveAlways(w) == failAttempt(w, "Cursor left the canvas.")

\* handlePointerLeave()
handlePointerLeave(w) ==
    IF w.state.recording THEN failAttempt(w, "Cursor left the canvas.") ELSE w

(* ----------------------------- environment ----------------------------- *)

\* the outcomes of Math.random() offered to generateNewPath: the same outcome
\* for each of the segments+1 draws
ConstantDraws(k) == [i \in 1..(segments + 1) |-> k]
RecorderDraws == {ConstantDraws(0), ConstantDraws(RandDen - 1)}

StartOf(points) == points[1]
MidOf(points) == points[(Len(points) + 1) \div 2]
EndOf(points) == points[Len(points)]

\* pointer positions offered on a path: the start anchor, a point near the
\* middle of the track, the end anchor, a point inside the end circle but off
\* the track, a point inside the start circle but off the track
Pointers(points) ==
    { StartOf(points),
      Pt(MidOf(points).x, MidOf(points).y + 10),
      EndOf(points),
      Pt(EndOf(points).x + 30, EndOf(points).y),
      Pt(StartOf(points).x - 30, StartOf(points).y) }

\* clock readings relative to state.lastTime: gone backwards, repeated,
\* advanced by Tick, advanced by Gap
ClockSteps == {0 - Back, 0, Tick, Gap}
FreeSteps == ClockSteps \ {0}

\* an attempt is ended at the end anchor either early, with about MIN_SAMPLES
\* samples, or late, with about SampleThreshold samples
ShortLen == MIN_SAMPLES + 1
LongLen == SampleThreshold - 1

\* the clock step that repeats the one before the last accepted sample
RepeatStep ==
    LET n == Len(state.movements)
    IN IF n > 0 /\ state.movements[n].dt > DT_FLOOR THEN state.movements[n].dt ELSE 0

\* the inputs explored.  While no verdict is stored, the clock step of the
\* first FreeLen samples of an attempt and the pointer of the first FreeLen+1
\* samples are drawn freely; after that the input repeats (the pointer dwells
\* on its last accepted position and the clock advances as before), or the
\* pointer leaves the track or reaches the end anchor.  Attempts are followed
\* up to MaxTrace samples (RetryLen once a verdict is stored).
Offered(pointer, step) ==
    LET n == Len(state.movements)
        fresh == state.lastResult = NoResult
        cap == IF fresh THEN MaxTrace ELSE RetryLen
        dwells == /\ n > 0
                  /\ pointer = Pt(state.movements[n].x, state.movements[n].y)
    IN /\ IF fresh /\ n < FreeLen THEN step \in FreeSteps ELSE step = RepeatStep
       /\ \/ ~state.recording
          \/ EdgeCollision(pointer, state.pathPoints, state.pathWidth)
          \/ IF isInsideCircle(pointer, EndOf(state.pathPoints), END_RADIUS - END_MARGIN)
             THEN n < ShortLen \/ n >= LongLen
             ELSE n < cap /\ ((fresh /\ n <= FreeLen) \/ dwells)

(* ------------------------------- actions ------------------------------- *)

Install(w) ==
    /\ state' = w.state
    /\ status' = w.status
    /\ attempt' = w.attempt
    /\ UNCHANGED <<arg, ret>>

\* the object `state` and the status element as the script creates them
Constructed ==
    [state |-> [pathPoints |-> <<>>, pathWidth |-> PATH_WIDTH,
                movements |-> <<>>, trailPoints |-> <<>>,
                recording |-> FALSE, lastTime |-> 0, elapsed |-> 0,
                lastResult |-> NoResult],
     status |-> [text |-> "", tone |-> "ready"],
     attempt |-> <<>>]

\* init(): generateNewPath() on the constructed state
Init ==
    /\ \E draws \in RecorderDraws :
          LET w == generateNewPath(Constructed, draws)
          IN state = w.state /\ status = w.status /\ attempt = w.attempt
    /\ arg = <<>>
    /\ ret = <<>>

GenerateNewPath == \E draws \in RecorderDraws : Install(generateNewPath(World, draws))

ResetAttempt == Install(resetAttempt(World))

PointerMove ==
    \E pointer \in Pointers(state.pathPoints), step \in ClockSteps :
       /\ Offered(pointer, step)
       /\ Install(handlePointerMove(World, pointer, BeginReading, step))

PointerLeave == Install(handlePointerLeave(World))

Next == GenerateNewPath \/ ResetAttempt \/ PointerMove \/ PointerLeave

Spec == Init /\ [][Next]_vars

(* ------------------- the threshold rules on their own ------------------ *)

\* feature values in hundredths around the thresholds of evaluateMovements
FeatureInputs ==
    [variance : 0..(1 + Around),
     velocityCv : (25 - Around)..(25 + Around),
     directionNoise : (8 - Around)..(8 + Around),
     jitterRatio : (10 - Around)..(10 + Around),
     pauses : (PauseThreshold - Around)..(PauseThreshold + Around),
     samples : (SampleThreshold - Around)..(SampleThreshold + Around)]

\* the feature record of evaluateMovements holding the values of input a
FeaturesFor(a) ==
    [meanVelocity |-> FInt(1),
     variance |-> FDec(a.variance, 2),
     velocityStd |-> FSqrt(FDec(a.variance, 2)),
     velocityCv |-> FDec(a.velocityCv, 2),
     jitterCount |-> a.jitterRatio,
     jitterRatio |-> Rat(a.jitterRatio, 100),
     directionNoise |-> Rat(a.directionNoise, 100),
     pauses |-> a.pauses,
     samples |-> a.samples]

InitClassify ==
    /\ state = Constructed.state
    /\ status = Constructed.status
    /\ attempt = <<>>
    /\ arg \in FeatureInputs
    /\ ret = <<>>

ClassifyCall ==
    /\ ret = <<>>
    /\ ret' = <<Classify(FeaturesFor(arg))>>
    /\ UNCHANGED <<state, status, attempt, arg>>

NextClassify == ClassifyCall

SpecClassify == InitClassify /\ [][NextClassify]_vars

(* ---------------------- the generator on its own ----------------------- *)

\* outcomes of Math.random(): one for the first point, two alternating in the loop
PathDraws(k0, k1, k2) ==
    [i \in 1..(segments + 1) |-> IF i = 1 THEN k0 ELSE IF i % 2 = 0 THEN k1 ELSE k2]

PathInputs ==
    [width : {2 * paddingX + segments * s : s \in 1..MaxStepX},
     height : {2 * paddingY + 20 * h : h \in 0..MaxHeightSteps},
     draws : {PathDraws(k0, k1, k2) : k0, k1, k2 \in 0..(RandDen - 1)}]

InitPath ==
    /\ state = Constructed.state
    /\ status = Constructed.status
    /\ attempt = <<>>
    /\ arg \in PathInputs
    /\ ret = <<>>

CreatePathPointsCall ==
    /\ ret = <<>>
    /\ ret' = <<createPathPoints(arg.width, arg.height, arg.draws)>>
    /\ UNCHANGED <<state, status, attempt, arg>>

NextPath == CreatePathPointsCall

SpecPath == InitPath /\ [][NextPath]_vars

(* ----------------------- the evaluator on its own ----------------------- *)

\* the pointer position and clock advance of one sample: a sample that stays
\* at the origin, one that moves right, one that moves up after a long pause
SampleKinds == {[x |-> 0, y |-> 0, dt |-> Tick], [x |-> 10, y |-> 0, dt |-> Tick],
                [x |-> 10, y |-> 10, dt |-> Gap]}

\* the trace handlePointerMove records for the sample kinds ks
RECURSIVE TraceOf(_, _, _)
TraceOf(ks, i, elapsed) ==
    IF i > Len(ks) THEN <<>>
    ELSE <<[x |-> ks[i].x, y |-> ks[i].y, dt |-> ks[i].dt, elapsed |-> elapsed + ks[i].dt]>>
         \o TraceOf(ks, i + 1, elapsed + ks[i].dt)

ShortTraces ==
    UNION {{TraceOf(ks, 1, 0) : ks \in [1..n -> SampleKinds]} : n \in 0..MaxShortTrace}

InitEvaluate ==
    /\ state = Constructed.state
    /\ status = Constructed.status
    /\ attempt = <<>>
    /\ arg \in ShortTraces
    /\ ret = <<>>

EvaluateMovementsCall ==
    /\ ret = <<>>
    /\ ret' = <<evaluateMovements(arg)>>
    /\ UNCHANGED <<state, status, attempt, arg>>

NextEvaluate == EvaluateMovementsCall

SpecEvaluate == InitEvaluate /\ [][NextEvaluate]_vars

(* ------------------- the distance functions on their own ---------------- *)

Grid == {Pt(gx, gy) : gx, gy \in 0..GridMax}

\* a point and a polyline of two or three points
DistanceInputs ==
    [p : Grid, points : {<<a, b>> : a, b \in Grid} \cup {<<a, b, c>> : a, b, c \in Grid}]

InitDistance ==
    /\ state = Constructed.state
    /\ status = Constructed.status
    /\ attempt = <<>>
    /\ arg \in DistanceInputs
    /\ ret = <<>>

DistanceToSegmentCall ==
    /\ ret = <<>>
    /\ ret' = <<[of |-> "segment",
                 d |-> distanceToSegment(arg.p, arg.points[1], arg.points[2])]>>
    /\ UNCHANGED <<state, status, attempt, arg>>

DistanceToPathCall ==
    /\ ret = <<>>
    /\ ret' = <<[of |-> "path", d |-> distanceToPath(arg.p, arg.points)[1]]>>
    /\ UNCHANGED <<state, status, attempt, arg>>

NextDistance == DistanceToSegmentCall \/ DistanceToPathCall

SpecDistance == InitDistance /\ [][NextDistance]_vars

\* widths and heights the caller may pass, non-positive ones included; every
\* width keeps (width - 2*paddingX) / segments whole
AnyPathInputs ==
    [width : {2 * paddingX + segments * s : s \in 1..MaxStepX}
             \cup {2 * paddingX - segments * s : s \in 12..(12 + MaxStepX)},
     height : {2 * paddingY + 20 * h : h \in 0..MaxHeightSteps}
              \cup {0 - 20 * h : h \in 0..MaxHeightSteps},
     draws : {PathDraws(k0, k1, k2) : k0, k1, k2 \in 0..(RandDen - 1)}]

InitPathAny ==
    /\ state = Constructed.state
    /\ status = Constructed.status
    /\ attempt = <<>>
    /\ arg \in AnyPathInputs
    /\ ret = <<>>

SpecPathAny == InitPathAny /\ [][NextPath]_vars

(* ------------------------------- claims -------------------------------- *)

\* the world after handlePointerMove / handlePointerLeave in the current state
AfterMove(pointer, step) == handlePointerMove(World, pointer, BeginReading, step)
AfterLeave == handlePointerLeave(World)

InEndCircle(pointer) ==
    isInsideCircle(pointer, EndOf(state.pathPoints), END_RADIUS - END_MARGIN)
InStartCircle(pointer) ==
    isInsideCircle(pointer, StartOf(state.pathPoints), START_RADIUS)
OffTrack(pointer) == EdgeCollision(pointer, state.pathPoints, state.pathWidth)

EdgeText == "Edge collision detected. Return to start to try again."
LeaveText == "Cursor left the canvas. Return to start to try again."
ShortText == "Movement trace too short. Return to start to try again."

\* C1: while recording, a pointer-move farther than pathWidth*0.52 from the
\* path fails the attempt as an edge collision (recording stops, trace
\* discarded, tone "fail"), and nothing is completed or evaluated, also when
\* the position is inside the end-anchor circle.
C1_EdgeCollisionPrecedence ==
    \A pointer \in Pointers(state.pathPoints) :
       (state.recording /\ OffTrack(pointer)) =>
          \A step \in ClockSteps :
          LET w == AfterMove(pointer, step)
          IN /\ ~w.state.recording
             /\ w.state.movements = <<>>
             /\ w.status = [text |-> EdgeText, tone |-> "fail"]
             /\ w.attempt = <<>>
             /\ w.state.lastResult = state.lastResult

\* C1 witness: a recording long enough to be evaluated on completion, and a
\* pointer inside the end circle but off the track, which fails it
C1_Witness ==
    /\ state.recording
    /\ Len(state.movements) >= MIN_SAMPLES
    /\ \E pointer \in Pointers(state.pathPoints) :
          /\ OffTrack(pointer)
          /\ InEndCircle(pointer)
          /\ AfterMove(pointer, 0).status.tone = "fail"

\* C2: a recording that reaches the end anchor is failed as too short, without
\* evaluation and with the stored verdict unchanged, iff the trace (with the
\* end sample) has fewer than 12 samples; otherwise the trace is evaluated and
\* the verdict of that trace is stored.
C2_MinimumSamples ==
    \A pointer \in Pointers(state.pathPoints) :
       (state.recording /\ InEndCircle(pointer) /\ ~OffTrack(pointer)) =>
          \A step \in {t \in ClockSteps : Offered(pointer, t)} :
          LET w == AfterMove(pointer, step)
              short == Len(state.movements) + 1 < 12
              failedShort == /\ w.attempt = <<>>
                             /\ w.state.lastResult = state.lastResult
                             /\ w.status = [text |-> ShortText, tone |-> "fail"]
              evaluated == /\ Len(w.attempt) = Len(state.movements) + 1
                           /\ SubSeq(w.attempt, 1, Len(state.movements)) = state.movements
                           /\ w.state.lastResult = <<evaluateMovements(w.attempt)>>
                           /\ w.status.text # ShortText
          IN /\ short <=> failedShort
             /\ ~short <=> evaluated

\* C2 witness: a retry ended at the end anchor with too few samples, the
\* verdict of an earlier attempt still stored
C2_Witness ==
    /\ status.text = ShortText
    /\ state.lastResult # NoResult

\* C3: a pointer-leave or an edge collision during recording discards the
\* trace: afterwards not recording, trace empty, elapsed 0, and the stored
\* verdict and the path are those of before the event.
C3_Discarded(w) ==
    /\ ~w.state.recording
    /\ w.state.movements = <<>>
    /\ w.state.elapsed = 0
    /\ w.state.lastResult = state.lastResult
    /\ w.state.pathPoints = state.pathPoints
    /\ w.attempt = <<>>

OfferedSteps(pointer) == {t \in ClockSteps : Offered(pointer, t)}

Positions(trace) == {Pt(trace[i].x, trace[i].y) : i \in 1..Len(trace)}

OnTrackAll(trace) == \A q \in Positions(trace) : ~OffTrack(q)

\* C4: every sample of the trace, and of a trace handed to the evaluator, lies
\* within pathWidth*0.52 of the path now installed; generateNewPath leaves the
\* recorder not recording with an empty trace and evaluates nothing.
C4_NoStaleSamples ==
    /\ OnTrackAll(state.movements)
    /\ OnTrackAll(attempt)
    /\ \A draws \in RecorderDraws :
          LET w == generateNewPath(World, draws)
          IN ~w.state.recording /\ w.state.movements = <<>> /\ w.attempt = <<>>

\* C4 witness: a live trace, and a regeneration that installs a path on which
\* a sample of that trace would be off the track
C4_Witness ==
    /\ state.recording
    /\ state.movements # <<>>
    /\ \E draws \in RecorderDraws :
          LET w == generateNewPath(World, draws)
          IN /\ w.state.movements = <<>>
             /\ \E q \in Positions(state.movements) :
                   EdgeCollision(q, w.state.pathPoints, w.state.pathWidth)

\* C5: when not recording, a pointer-move inside the start-anchor circle leaves
\* the recorder recording, with a trace started afresh by this sample and
\* elapsed counted from this attempt's start.
C5_StartAnchorBeginsRecording ==
    \A pointer \in Pointers(state.pathPoints) :
       (~state.recording /\ Len(state.pathPoints) > 0 /\ InStartCircle(pointer)) =>
          \A step \in OfferedSteps(pointer) :
             LET w == AfterMove(pointer, step)
             IN /\ w.state.recording
                /\ Len(w.state.movements) = 1
                /\ w.state.movements[1].x = pointer.x
                /\ w.state.movements[1].y = pointer.y
                /\ w.state.elapsed = w.state.movements[1].dt

\* C6: recording is entered only by a pointer-move inside the start-anchor
\* circle: pointer-leave, reset, regenerate and a move outside the start
\* anchor never start one, and an event that ends an attempt does not start
\* the next (a move that leaves the recorder recording continues the trace).
C6_OnlyStartAnchorBegins ==
    /\ ~AfterLeave.state.recording
    /\ ~resetAttempt(World).state.recording
    /\ \A draws \in RecorderDraws : ~generateNewPath(World, draws).state.recording
    /\ \A pointer \in Pointers(state.pathPoints) :
          \A step \in OfferedSteps(pointer) :
             LET w == AfterMove(pointer, step)
             IN w.state.recording =>
                   IF state.recording
                   THEN /\ Len(w.state.movements) = Len(state.movements) + 1
                        /\ SubSeq(w.state.movements, 1, Len(state.movements))
                              = state.movements
                   ELSE InStartCircle(pointer)

\* C6 witness: a recording just entered, its only sample inside the start circle
C6_Witness ==
    /\ state.recording
    /\ Len(state.movements) = 1
    /\ InStartCircle(Pt(state.movements[1].x, state.movements[1].y))

TimesOK(trace) ==
    \A i \in 1..Len(trace) :
       /\ trace[i].dt >= DT_FLOOR
       /\ trace[i].elapsed = (IF i = 1 THEN 0 ELSE trace[i - 1].elapsed) + trace[i].dt
       /\ i > 1 => trace[i].elapsed > trace[i - 1].elapsed

\* C7: whatever the clock readings, every sample has dt >= 0.1 ms, the elapsed
\* values of a trace strictly increase, and each equals the sum of the dt
\* values recorded so far in the attempt.
C7_TimestampsSound ==
    /\ TimesOK(state.movements)
    /\ TimesOK(attempt)
    /\ state.movements # <<>> =>
          state.elapsed = state.movements[Len(state.movements)].elapsed

\* C7 witness: samples recorded while the clock went backwards
C7_Witness ==
    /\ Len(state.movements) >= 2
    /\ state.lastTime < BeginReading
    /\ \A i \in 1..Len(state.movements) : state.movements[i].dt = DT_FLOOR

LongPauses(trace) == Cardinality({i \in 1..Len(trace) : trace[i].dt > 50 * TimeScale})

\* C9: a passing verdict or a "pass" status arises only from a completed trace
\* of more than 70 samples with at least 2 samples of dt > 50 ms.
C9_PassNeedsSamplesAndPauses ==
    /\ status.tone = "pass" => state.lastResult # NoResult /\ state.lastResult[1].pass
    /\ state.lastResult # NoResult /\ state.lastResult[1].pass =>
          state.lastResult[1].samples > 70 /\ state.lastResult[1].pauses >= 2
    /\ attempt # <<>> =>
          /\ state.lastResult # NoResult
          /\ state.lastResult[1].samples = Len(attempt)
          /\ state.lastResult[1].pauses = LongPauses(attempt)
          /\ state.lastResult[1].pass => Len(attempt) > 70 /\ LongPauses(attempt) >= 2
          /\ state.lastResult[1].pass <=> status.tone = "pass"

\* C9 witness: a trace of more than 70 samples evaluated and passed
C9_Witness ==
    /\ attempt # <<>>
    /\ Len(attempt) > 70
    /\ status.tone = "pass"

\* a trace of more than 70 samples without long pauses evaluated and not passed
C9_WitnessNoPauses ==
    /\ attempt # <<>>
    /\ Len(attempt) > 70
    /\ LongPauses(attempt) = 0
    /\ status.tone = "fail"

\* C8: for every feature set the pass flag is true iff (variance > 0.01 or
\* velocityCv > 0.25 or directionNoise > 0.08) and jitterRatio > 0.10 and
\* pauses >= 2 and samples > 70; passChaos is true as soon as one chaos
\* sub-signal exceeds its threshold; every requirement flag equals its own
\* threshold test (the inputs are in hundredths).
C8_PassIffThresholds ==
    ret # <<>> =>
       LET v == ret[1]
           r == v.requirements
           chaos == arg.variance > 1 \/ arg.velocityCv > 25 \/ arg.directionNoise > 8
       IN /\ v.pass <=> (chaos /\ arg.jitterRatio > 10 /\ arg.pauses >= 2
                          /\ arg.samples > 70)
          /\ r.passChaos <=> chaos
          /\ r.passVariance <=> arg.variance > 1
          /\ r.passCv <=> arg.velocityCv > 25
          /\ r.passDirection <=> arg.directionNoise > 8
          /\ r.passJitter <=> arg.jitterRatio > 10
          /\ r.passPauses <=> arg.pauses >= 2
          /\ r.passSamples <=> arg.samples > 70

\* C8 witness: only the direction sub-signal exceeds its threshold, variance
\* and velocityCv sit exactly on theirs, and the verdict passes
C8_Witness ==
    /\ ret # <<>>
    /\ arg.variance = 1
    /\ arg.velocityCv = 25
    /\ arg.directionNoise > 8
    /\ ret[1].requirements.passChaos
    /\ ret[1].pass

\* C10: for every width >= 2*paddingX, height >= 2*paddingY and every outcome
\* of the draws, createPathPoints returns 13 points with strictly increasing
\* x and every y, the first included, within [paddingY, height - paddingY].
C10_PathPointsBounded ==
    ret # <<>> =>
       LET points == ret[1]
       IN /\ Len(points) = 13
          /\ \A i \in 2..Len(points) : points[i].x > points[i - 1].x
          /\ \A i \in 1..Len(points) :
                /\ points[i].y >= paddingY
                /\ points[i].y <= arg.height - paddingY

\* C11: createPathPoints called with a non-positive width or height is
\* rejected: it returns no path (no points at all).
C11_NonPositiveBoundsRejected ==
    (ret # <<>> /\ (arg.width <= 0 \/ arg.height <= 0)) => ret[1] = <<>>

\* C12: an event that fails a recording attempt (cursor leaving the canvas,
\* edge collision, trace too short, verdict with pass = false) regenerates
\* the path: the path installed after the event is not the one before it.
C12_FailureRegeneratesPath ==
    state.recording =>
       /\ AfterLeave.state.pathPoints # state.pathPoints
       /\ \A pointer \in Pointers(state.pathPoints) :
             \A step \in OfferedSteps(pointer) :
                LET w == AfterMove(pointer, step)
                IN w.status.tone = "fail" => w.state.pathPoints # state.pathPoints

\* C13: resetAttempt, in any state, leaves the path and the stored verdict
\* unchanged and leaves the recorder not recording with an empty trace, an
\* empty trail and elapsed 0.
C13_ResetKeepsPathAndVerdict ==
    LET w == resetAttempt(World)
    IN /\ w.state.pathPoints = state.pathPoints
       /\ w.state.pathWidth = state.pathWidth
       /\ w.state.lastResult = state.lastResult
       /\ ~w.state.recording
       /\ w.state.movements = <<>>
       /\ w.state.trailPoints = <<>>
       /\ w.state.elapsed = 0
       /\ w.attempt = <<>>

\* C13 witness: a reset issued during a retry, with samples recorded and a
\* verdict stored, empties the trace
C13_Witness ==
    /\ state.recording
    /\ Len(state.movements) >= 2
    /\ state.lastResult # NoResult
    /\ resetAttempt(World).state.movements = <<>>
    /\ resetAttempt(World).state.lastResult = state.lastResult

HoverText == "Hover the start beacon to begin."

\* C14: the stored verdict is null initially; an event changes it only by
\* completing and evaluating an attempt (it becomes the verdict of that trace)
\* or by installing a new path (it becomes null), so it is non-null exactly
\* when an attempt was evaluated since the path was installed; failed
\* attempts and reset neither set nor clear it.
C14_VerdictLifecycle ==
    /\ state.lastResult = NoResult
    /\ [][/\ attempt' # <<>> => state'.lastResult = <<evaluateMovements(attempt')>>
          /\ state'.lastResult # state.lastResult =>
                \/ attempt' # <<>>
                \/ state'.lastResult = NoResult /\ status'.text = HoverText
          /\ status'.text = HoverText => state'.lastResult = NoResult]_vars

\* C14 witness: an attempt failed by an edge collision while the verdict of an
\* earlier attempt on this path stays stored
C14_Witness ==
    /\ status.text = EdgeText
    /\ state.lastResult # NoResult
    /\ state.movements = <<>>

RatEq(a, b) == a.num * b.den = b.num * a.den

\* C15: distanceToSegment(p, a, b) is no greater than the distance from p to
\* a nor than that from p to b, and equals the distance from p to a when
\* a = b; distanceToPath is the minimum of distanceToSegment over the
\* consecutive segments (distances compared by their squares).
C15_DistanceBounds ==
    ret # <<>> =>
       LET p == arg.p
           a == arg.points[1]
           b == arg.points[2]
           d == ret[1].d
           segs == {distanceToSegment(p, arg.points[i - 1], arg.points[i]) :
                       i \in 2..Len(arg.points)}
       IN /\ ret[1].of = "segment" =>
                /\ d.num * 1 <= DistSq(p, a) * d.den
                /\ d.num * 1 <= DistSq(p, b) * d.den
                /\ a = b => d.num = DistSq(p, a) * d.den
          /\ ret[1].of = "path" =>
                /\ \E e \in segs : RatEq(d, e)
                /\ \A e \in segs : d.num * e.den <= e.num * d.den

\* C15 witness: the projection of p falls strictly inside the segment and the
\* distance is strictly less than the distance to either endpoint
C15_Witness ==
    /\ ret # <<>>
    /\ ret[1].of = "segment"
    /\ arg.points[1] # arg.points[2]
    /\ ret[1].d.num < DistSq(arg.p, arg.points[1]) * ret[1].d.den
    /\ ret[1].d.num < DistSq(arg.p, arg.points[2]) * ret[1].d.den
    /\ ret[1].d.num > 0

\* C16: while recording, an accepted sample inside the end circle ends the
\* recording in the same event, and it is appended before the completion
\* check: the trace counted against the minimum of 12 and handed to the
\* evaluator is the trace so far followed by that sample.
C16_EndSampleAppendedFirst ==
    \A pointer \in Pointers(state.pathPoints) :
       (state.recording /\ InEndCircle(pointer) /\ ~OffTrack(pointer)) =>
          \A step \in OfferedSteps(pointer) :
             LET w == AfterMove(pointer, step)
                 n == Len(state.movements)
                 dt == Max(step, DT_FLOOR)
                 sample == [x |-> pointer.x, y |-> pointer.y, dt |-> dt,
                            elapsed |-> state.elapsed + dt]
             IN /\ ~w.state.recording
                /\ w.state.movements = <<>>
                /\ IF n + 1 >= 12
                   THEN w.attempt = Append(state.movements, sample)
                   ELSE w.attempt = <<>> /\ w.status.text = ShortText

\* C16 witness: a trace of exactly 12 samples, the end-anchor sample being the
\* twelfth, was evaluated
C16_Witness ==
    /\ Len(attempt) = 12
    /\ InEndCircle(Pt(attempt[12].x, attempt[12].y))
    /\ ~InEndCircle(Pt(attempt[11].x, attempt[11].y))
    /\ state.lastResult # NoResult
    /\ ~state.recording

\* C17: after every event, a recorder that is not recording has an empty
\* trace and elapsed 0, whichever way the recording was left.
C17_IdleMeansEmptyTrace ==
    ~state.recording => state.movements = <<>> /\ state.elapsed = 0

\* C17 witness: the recording was left by an evaluated completion
C17_Witness ==
    /\ attempt # <<>>
    /\ ~state.recording
    /\ state.movements = <<>>
    /\ state.elapsed = 0

\* neither movement vector around sample i - 1 is shorter than 0.4
BothVectorsLong(trace, i) ==
    /\ trace[i - 1].x # trace[i - 2].x \/ trace[i - 1].y # trace[i - 2].y
    /\ trace[i].x # trace[i - 1].x \/ trace[i].y # trace[i - 1].y

\* C18: degenerate traces yield zero-valued features and false flags: at most
\* 6 samples give meanVelocity = variance = velocityStd = velocityCv = 0; no
\* triple of consecutive samples with both movement vectors >= 0.4 gives
\* directionNoise = 0; 0 or 1 samples give jitterRatio = 0.
C18_DegenerateTracesYieldZero ==
    ret # <<>> =>
       LET v == ret[1]
           r == v.requirements
       IN /\ Len(arg) <= 6 =>
                /\ v.meanVelocity = FZero /\ v.variance = FZero
                /\ v.velocityStd = FZero /\ v.velocityCv = FZero
                /\ ~r.passVariance /\ ~r.passCv
          /\ (\A i \in 3..Len(arg) : ~BothVectorsLong(arg, i)) =>
                v.directionNoise.num = 0 /\ v.directionNoise.den > 0 /\ ~r.passDirection
          /\ Len(arg) <= 1 =>
                v.jitterRatio.num = 0 /\ v.jitterRatio.den > 0 /\ ~r.passJitter
          /\ v.samples = Len(arg)

\* C18 witness: six samples that move and turn: the velocity features are zero
\* while directionNoise is not
C18_Witness ==
    /\ ret # <<>>
    /\ Len(arg) = 6
    /\ arg[6].x # arg[1].x
    /\ ret[1].meanVelocity = FZero
    /\ ret[1].directionNoise.num > 0

\* seven samples give a velocity: the features are no longer zero
C18_WitnessSeven ==
    /\ ret # <<>>
    /\ Len(arg) = 7
    /\ ret[1].meanVelocity # FZero

\* C19: after every event, a recording recorder has a non-empty trace whose
\* first sample lies within START_RADIUS of the first point of the current
\* path, and the trail holds the positions of the trace's samples in order.
C19_RecordingTraceShape ==
    state.recording =>
       /\ Len(state.movements) >= 1
       /\ InStartCircle(Pt(state.movements[1].x, state.movements[1].y))
       /\ Len(state.trailPoints) = Len(state.movements)
       /\ \A i \in 1..Len(state.movements) :
             state.trailPoints[i] = Pt(state.movements[i].x, state.movements[i].y)

\* C19 witness: a retry after an evaluated attempt (whose trail was left on
\* the canvas) has recorded several samples
C19_Witness ==
    /\ state.recording
    /\ state.lastResult # NoResult
    /\ Len(state.movements) >= 3
    /\ Len(state.trailPoints) = Len(state.movements)

\* the trail of an evaluated attempt stays after the recording has ended
C19_StaleTrailWhenIdle ==
    /\ ~state.recording
    /\ state.movements = <<>>
    /\ state.trailPoints # <<>>

\* C20: after every event the status tone agrees with the recorder: the tone
\* is "recording" iff the recorder is recording, and the tone is "pass" only
\* when the stored verdict is non-null with pass = true.
C20_ToneAgreesWithState ==
    /\ status.tone \in {"ready", "recording", "pass", "fail"}
    /\ status.tone = "recording" <=> state.recording
    /\ status.tone = "pass" => state.lastResult # NoResult /\ state.lastResult[1].pass

\* C20 witness: a retry is being recorded after a passed attempt: the tone
\* has left "pass" while the passing verdict is still stored
C20_Witness ==
    /\ state.recording
    /\ status.tone = "recording"
    /\ state.lastResult # NoResult
    /\ state.lastResult[1].pass

\* C21: while the recorder is not recording, a pointer-leave and a
\* pointer-move outside the start-anchor circle leave the whole state
\* unchanged: path, trace, trail, elapsed, stored verdict (every field of
\* state) and the status, and nothing is evaluated.
C21_IdleEventsChangeNothing ==
    ~state.recording =>
       /\ AfterLeave.state = state
       /\ AfterLeave.status = status
       /\ AfterLeave.attempt = <<>>
       /\ \A pointer \in Pointers(state.pathPoints) :
             ~InStartCircle(pointer) =>
                \A step \in ClockSteps :
                   LET w == AfterMove(pointer, step)
                   IN w.state = state /\ w.status = status /\ w.attempt = <<>>

\* C21 witness: an idle recorder after a passed attempt (verdict stored, trail
\* still on the canvas, tone "pass") and a pointer outside the start circle
\* whose move changes nothing
C21_Witness ==
    /\ ~state.recording
    /\ status.tone = "pass"
    /\ state.lastResult # NoResult
    /\ state.trailPoints # <<>>
    /\ \E pointer \in Pointers(state.pathPoints) :
          /\ ~InStartCircle(pointer)
          /\ AfterMove(pointer, Tick).state = state
          /\ AfterMove(pointer, Tick).status = status
    /\ AfterLeave.status = status

=============================================================================
